---- MODULE Spec2Model ----
(***************************************************************************)
(* API Monitoring SaaS backend (src/main.py, src/schemas.py).              *)
(*                                                                         *)
(* State: the three collections of the document store (project, apikey,    *)
(* apievent), the wall clock, the requests in flight (one ingest and one   *)
(* project_stats call, each between two of its store operations) and the   *)
(* last HTTP response sent; cfg is the workload, fixed by the initial      *)
(* state: the requests the clients send and how many documents they        *)
(* create.  The handlers take no lock and open no transaction, so they     *)
(* interleave between any two store operations.                            *)
(* create_key is one step: projects are never changed or deleted, so the   *)
(* project it looked up is still there when it inserts.  In ingest the two *)
(* lookups are one step for the same reason (a project found stays found), *)
(* and the insert is another.  project_stats is one step per query.        *)
(*                                                                         *)
(* Encodings.  A Python string that is parsed, split or tested for         *)
(* emptiness is a sequence of one-character strings; the others are TLA+   *)
(* strings.  Optional[T] is a sequence of length 0 (None) or 1.  An        *)
(* ObjectId is a natural number, its str() form two lower-case hex digits  *)
(* (24 in bson).  avg_latency is the fraction [num, den].  Time is in      *)
(* ticks, HourTicks to the hour.                                           *)
(***************************************************************************)
EXTENDS Integers, Sequences, FiniteSets, TLC

VARIABLES project, apikey, apievent, now, ing, st, resp, cfg

vars == <<project, apikey, apievent, now, ing, st, resp, cfg>>

(***************************************************************************)
(* Bounds of the model.                                                    *)
(***************************************************************************)
KeysMaxProjects == 1
KeysMaxKeys == 2
KeysMaxEvents == 1
IngestMaxProjects == 2
IngestMaxKeys == 2
IngestMaxEvents == 1
AddressMaxProjects == 1
AddressMaxKeys == 1
AddressMaxEvents == 2
StatsMaxProjects == 2
StatsMaxEvents == 2
HourlyMaxProjects == 1
HourlyMaxEvents == 3
MaxSkew == 1
HourTicks == 2

(***************************************************************************)
(* Program constants.                                                      *)
(***************************************************************************)
ProjectListLimit == 50
KeyListLimit == 100
WindowHours == 24
StatusMin == 100
StatusMax == 599
ErrorStatus == 400

\* timedelta(hours=24), in ticks
Window == WindowHours * HourTicks

(***************************************************************************)
(* Optional values and Python truthiness.                                  *)
(***************************************************************************)
None == <<>>
Some(x) == <<x>>

\* bool(s) of an Optional[str]: None and "" are both falsy
Truthy(o) == o # None /\ o[1] # <<>>

\* the Python expression  a or b  on Optional[str] values
PyOr(a, b) == IF Truthy(a) THEN a ELSE b

Min(S) == CHOOSE x \in S : \A y \in S : x <= y

(***************************************************************************)
(* bson.ObjectId: parsing and printing.                                    *)
(***************************************************************************)
Hex == <<"0", "1", "2", "3", "4", "5", "6", "7", "8", "9",
         "a", "b", "c", "d", "e", "f">>
UpperHex == <<"0", "1", "2", "3", "4", "5", "6", "7", "8", "9",
              "A", "B", "C", "D", "E", "F">>

HexChars == {Hex[i] : i \in 1..16} \cup {UpperHex[i] : i \in 1..16}

HexVal(c) == (CHOOSE i \in 1..16 : Hex[i] = c \/ UpperHex[i] = c) - 1

\* ObjectId.is_valid(s): the right number of hex digits, in either case
IsValidId(s) == Len(s) = 2 /\ \A i \in 1..2 : s[i] \in HexChars

\* ObjectId(s) of a valid s
ObjectId(s) == 16 * HexVal(s[1]) + HexVal(s[2])

\* str(oid): always lower case
StrId(oid) == <<Hex[((oid \div 16) % 16) + 1], Hex[(oid % 16) + 1]>>

\* the ObjectId the store gives the next inserted document
NextOid == 10 + Len(project) + Len(apikey) + Len(apievent)

(***************************************************************************)
(* Requests.  The handlers are the same in every specification; what       *)
(* differs is the set of requests the clients send.                        *)
(***************************************************************************)
BaseEvent ==
    [project_slug |-> "s1", api_key |-> None, method |-> "GET", path |-> "/x",
     status |-> 200, latency_ms |-> 10, ip |-> None, user_agent |-> None,
     request_size |-> None, response_size |-> None, error_message |-> None]

BaseCall == [event |-> BaseEvent, x_forwarded_for |-> None, user_agent |-> None]

ProjectPayloads(slugs) ==
    {[name |-> "n", slug |-> s, description |-> None] : s \in slugs}

KeyPayloads(ids) == {[project_id |-> i, name |-> "label"] : i \in ids}

\* the time points at which something happens: around the start, and a
\* window later
Times == (0..MaxSkew) \cup {Window + k : k \in 0..MaxSkew}

\* identifiers: of the first documents, the first in upper case, one of no
\* document, and two that are no identifiers
IdInputs ==
    {StrId(10), <<"0", "A">>, StrId(11), <<"f", "f">>, <<"z", "z">>, <<"0">>}

Key1 == <<"k", "1">>
Key2 == <<"k", "2">>

\* key issuance and listing
KeysWorkload ==
    [projects |-> ProjectPayloads({"s1"}),
     keys     |-> KeyPayloads(IdInputs),
     listed   |-> {StrId(10), <<"0", "A">>},
     calls    |-> {BaseCall},
     stats    |-> {StrId(10)},
     times    |-> {0},
     tokens   |-> {Key1, Key2},
     max_projects |-> KeysMaxProjects,
     max_keys |-> KeysMaxKeys,
     max_events |-> KeysMaxEvents]

\* the payloads that break one constraint of the Apievent schema each
BadEvents ==
    {[BaseEvent EXCEPT !.method = "TRACE"],
     [BaseEvent EXCEPT !.status = StatusMin - 1],
     [BaseEvent EXCEPT !.status = StatusMax + 1],
     [BaseEvent EXCEPT !.latency_ms = -1],
     [BaseEvent EXCEPT !.request_size = Some(-1)],
     [BaseEvent EXCEPT !.response_size = Some(-1)]}

\* explicit ip fields and X-Forwarded-For headers: absent, empty, and set
IpInputs == {None, Some(<<>>), Some(<<"9">>)}
ForwardedInputs == {None, Some(<<>>), Some(<<" ", "1", ",", " ", "2">>)}

\* ingestion: slugs of both projects and of none, keys of both projects and
\* of none, schema violations
IngestWorkload ==
    [projects |-> ProjectPayloads({"s1", "s2"}),
     keys     |-> KeyPayloads({StrId(10), <<"0", "A">>}),
     listed   |-> {},
     calls    |-> {[BaseCall EXCEPT !.event.project_slug = s, !.event.api_key = k] :
                        s \in {"s1", "s2", "sx"},
                        k \in {None, Some(<<>>), Some(Key1), Some(Key2)}}
                  \cup {[BaseCall EXCEPT !.event = e] : e \in BadEvents},
     stats    |-> {},
     times    |-> {0},
     tokens   |-> {Key1, Key2},
     max_projects |-> IngestMaxProjects,
     max_keys |-> IngestMaxKeys,
     max_events |-> IngestMaxEvents]

\* the sources of the client address: every explicit ip with every header
AddressWorkload ==
    [projects |-> ProjectPayloads({"s1"}),
     keys     |-> KeyPayloads({StrId(10)}),
     listed   |-> {},
     calls    |-> {[BaseCall EXCEPT !.event.ip = i, !.x_forwarded_for = x] :
                        i \in IpInputs, x \in ForwardedInputs},
     stats    |-> {},
     times    |-> {0},
     tokens   |-> {Key1},
     max_projects |-> AddressMaxProjects,
     max_keys |-> AddressMaxKeys,
     max_events |-> AddressMaxEvents]

\* an event of the workload of the statistics
StatsEvent(slug, status, latency_ms) ==
    [BaseCall EXCEPT !.event.project_slug = slug, !.event.status = status,
                     !.event.latency_ms = latency_ms]

\* statistics: events of two projects, with and without error status, and
\* the identifiers of a project and of none, and a string that is none
StatsWorkload ==
    [projects |-> ProjectPayloads({"s1", "s2"}),
     keys     |-> {},
     listed   |-> {},
     calls    |-> {StatsEvent("s1", 200, 10), StatsEvent("s1", 500, 30),
                   StatsEvent("s2", 404, 20)},
     stats    |-> {StrId(10), <<"f", "f">>, <<"z", "z">>},
     times    |-> {0},
     tokens   |-> {},
     max_projects |-> StatsMaxProjects,
     max_keys |-> 0,
     max_events |-> StatsMaxEvents]

\* the hourly series: events of one project, at times around the start and
\* a window later
HourlyWorkload ==
    [projects |-> ProjectPayloads({"s1"}),
     keys     |-> {},
     listed   |-> {},
     calls    |-> {BaseCall},
     stats    |-> {StrId(10)},
     times    |-> Times,
     tokens   |-> {},
     max_projects |-> HourlyMaxProjects,
     max_keys |-> 0,
     max_events |-> HourlyMaxEvents]

\* the workload of this behaviour
Load ==
    CASE cfg = "keys" -> KeysWorkload
      [] cfg = "ingest" -> IngestWorkload
      [] cfg = "address" -> AddressWorkload
      [] cfg = "stats" -> StatsWorkload
      [] cfg = "hourly" -> HourlyWorkload

(***************************************************************************)
(* Storage adapter (database.py is not part of the sources; modelled from  *)
(* section 4.1 of the specification, and pymongo's collection calls).      *)
(***************************************************************************)
\* insert(collection, record) -> the stored document: the record with the
\* store-generated _id
create_document(data) == [_id |-> NextOid] @@ data

\* the first n documents of a sequence
Take(docs, n) == SubSeq(docs, 1, IF Len(docs) < n THEN Len(docs) ELSE n)

\* a query document: eq gives the fields that must equal a value, gte the
\* fields that must be at least a value ({"$gte": v})
Query(eq, gte) == [eq |-> eq, gte |-> gte]
NoFields == <<>>

\* whether a document matches a query document
Matches(doc, q) ==
    /\ \A f \in DOMAIN q.eq : f \in DOMAIN doc /\ doc[f] = q.eq[f]
    /\ \A f \in DOMAIN q.gte : f \in DOMAIN doc /\ doc[f] >= q.gte[f]

\* the positions of the documents of a collection that match
Hits(coll, q) == {i \in DOMAIN coll : Matches(coll[i], q)}

\* find(collection, filter, limit)
get_documents(coll, q, limit) ==
    LET F[i \in 0..Len(coll)] ==
            IF i = 0 THEN <<>>
            ELSE IF Matches(coll[i], q) THEN Append(F[i - 1], coll[i]) ELSE F[i - 1]
    IN  Take(F[Len(coll)], limit)

\* collection.find_one(filter): None, or one matching document (which one,
\* when several match, is the store's choice)
find_one(coll, q) ==
    IF Hits(coll, q) = {} THEN {None} ELSE {Some(coll[i]) : i \in Hits(coll, q)}

\* collection.count_documents(filter)
count_documents(coll, q) == Cardinality(Hits(coll, q))

(***************************************************************************)
(* to_str_id: _id is popped and returned as the string field id; every     *)
(* other field of the document is kept.                                    *)
(***************************************************************************)
to_str_id(doc) ==
    [f \in (DOMAIN doc \ {"_id"}) \cup {"id"} |->
        IF f = "id" THEN StrId(doc["_id"]) ELSE doc[f]]

\* [to_str_id(d) for d in docs]
StrIds(docs) == [i \in DOMAIN docs |-> to_str_id(docs[i])]

(***************************************************************************)
(* Requests not in flight.                                                 *)
(***************************************************************************)
Idle == [pc |-> "idle"]

NoResponse == [op |-> "none", status |-> 0]

Start(workload) ==
    /\ cfg = workload
    /\ project = <<>>
    /\ apikey = <<>>
    /\ apievent = <<>>
    /\ now = 0
    /\ ing = Idle
    /\ st = Idle
    /\ resp = NoResponse

(***************************************************************************)
(* Projects.                                                               *)
(***************************************************************************)
\* POST /api/projects
create_project(payload) ==
    /\ Len(project) < Load.max_projects
    /\ LET doc == create_document(payload)
       IN  /\ project' = Append(project, doc)
           /\ resp' = [op |-> "create_project", status |-> 200,
                       body |-> [id |-> StrId(doc["_id"])]]
    /\ UNCHANGED <<apikey, apievent, now, ing, st, cfg>>

\* GET /api/projects
list_projects ==
    /\ resp' = [op |-> "list_projects", status |-> 200,
                body |-> StrIds(get_documents(project, Query(NoFields, NoFields),
                                                     ProjectListLimit))]
    /\ UNCHANGED <<project, apikey, apievent, now, ing, st, cfg>>

(***************************************************************************)
(* API keys.                                                               *)
(***************************************************************************)
\* secrets.token_urlsafe(24): the values the generator can still return (a
\* repeated value has negligible probability and is left out)
FreshTokens == Load.tokens \ {apikey[i].key : i \in DOMAIN apikey}

\* create_key without the check of what the lookup returned
CreateKeyTryUnchecked(project_id) ==
    IF ~IsValidId(project_id)
    THEN [raised |-> "InvalidId", status_code |-> 0]
    ELSE [raised |-> "nothing", status_code |-> 0]

\* the body of the try block of create_key: what it raises, if anything
CreateKeyTry(project_id) ==
    IF ~IsValidId(project_id)
    THEN [raised |-> "InvalidId", status_code |-> 0]
    ELSE IF find_one(project, Query([_id |-> ObjectId(project_id)], NoFields)) = {None}
         THEN [raised |-> "HTTPException", status_code |-> 404]
         ELSE [raised |-> "nothing", status_code |-> 0]

\* except Exception: whatever the try block raised (HTTPException is an
\* Exception too) is replaced by HTTPException(400); 0 when nothing was raised
CreateKeyExcept(outcome) ==
    IF outcome.raised # "nothing" THEN 400 ELSE 0

\* POST /api/keys
create_key(payload) ==
    /\ Len(apikey) < Load.max_keys
    /\ LET failed == CreateKeyExcept(CreateKeyTry(payload.project_id))
       IN  IF failed # 0
           THEN /\ resp' = [op |-> "create_key", status |-> failed]
                /\ UNCHANGED apikey
           ELSE \E key_value \in FreshTokens :
                  LET doc == create_document([project_id |-> payload.project_id,
                                              name |-> payload.name,
                                              key |-> key_value,
                                              active |-> TRUE])
                  IN  /\ apikey' = Append(apikey, doc)
                      /\ resp' = [op |-> "create_key", status |-> 200,
                                  body |-> [id |-> StrId(doc["_id"]),
                                            key |-> key_value]]
    /\ UNCHANGED <<project, apievent, now, ing, st, cfg>>

\* GET /api/keys?project_id=
list_keys(project_id) ==
    /\ resp' = [op |-> "list_keys", status |-> 200,
                body |-> StrIds(get_documents(apikey,
                                    Query([project_id |-> project_id], NoFields),
                                    KeyListLimit))]
    /\ UNCHANGED <<project, apikey, apievent, now, ing, st, cfg>>

(***************************************************************************)
(* schemas.Apievent: the field constraints pydantic enforces when the      *)
(* handler constructs the record.                                          *)
(***************************************************************************)
Methods == {"GET", "POST", "PUT", "PATCH", "DELETE", "OPTIONS", "HEAD"}

ApieventValid(d) ==
    /\ d.method \in Methods
    /\ d.status >= StatusMin /\ d.status <= StatusMax
    /\ d.latency_ms >= 0
    /\ (d.request_size = None \/ d.request_size[1] >= 0)
    /\ (d.response_size = None \/ d.response_size[1] >= 0)

(***************************************************************************)
(* str.split(",")[0] and str.strip() on strings as character sequences.    *)
(***************************************************************************)
\* s.split(",")[0]: everything before the first comma
FirstEntry(s) ==
    LET commas == {i \in DOMAIN s : s[i] = ","}
    IN  IF commas = {} THEN s ELSE SubSeq(s, 1, Min(commas) - 1)

\* s.strip(): without its leading and trailing blanks
Strip(s) ==
    LET solid == {i \in DOMAIN s : s[i] # " "}
    IN  IF solid = {} THEN <<>>
        ELSE SubSeq(s, Min(solid), CHOOSE i \in solid : \A j \in solid : j <= i)

\* the header tried before the explicit field
EffectiveIpHeaderFirst(ip, x_forwarded_for) ==
    PyOr(IF Truthy(x_forwarded_for)
         THEN Some(Strip(FirstEntry(x_forwarded_for[1])))
         ELSE None, ip)

\* event.ip or (x_forwarded_for.split(",")[0].strip() if x_forwarded_for else None)
EffectiveIp(ip, x_forwarded_for) ==
    PyOr(ip, IF Truthy(x_forwarded_for)
             THEN Some(Strip(FirstEntry(x_forwarded_for[1])))
             ELSE None)

\* event.user_agent or user_agent
EffectiveUa(field, header) == PyOr(field, header)

(***************************************************************************)
(* Ingestion.  A call is [event |-> the JSON body, x_forwarded_for and     *)
(* user_agent |-> the two headers].                                        *)
(***************************************************************************)
\* a project lookup that ignores the slug
AnySlug(slug) == Query(NoFields, NoFields)

\* {"slug": event.project_slug}
BySlug(slug) == Query([slug |-> slug], NoFields)

\* a key lookup that ignores the project
ActiveKeyOfAnyProject(key, pid) == Query([key |-> key, active |-> TRUE], NoFields)

\* {"key": event.api_key, "project_id": str(proj["_id"]), "active": True}
ActiveKeyOf(key, pid) ==
    Query([key |-> key, project_id |-> pid, active |-> TRUE], NoFields)

\* what the client gets when the handler raises: HTTPException carries its
\* status; a pydantic ValidationError raised inside the handler is not a
\* request validation error and ends as an internal server error
RaisedStatus(exc) ==
    IF exc.raised = "HTTPException" THEN exc.status_code ELSE 500

\* the Apievent(...) the handler builds
BuildEvent(call, proj, api_key_id) ==
    [project_id |-> StrId(proj["_id"]),
     api_key_id |-> api_key_id,
     method |-> call.event.method,
     path |-> call.event.path,
     status |-> call.event.status,
     latency_ms |-> call.event.latency_ms,
     ip |-> EffectiveIp(call.event.ip, call.x_forwarded_for),
     user_agent |-> EffectiveUa(call.event.user_agent, call.user_agent),
     request_size |-> call.event.request_size,
     response_size |-> call.event.response_size,
     error_message |-> call.event.error_message]

\* the key lookup of the handler: skipped when no key was submitted
LookupKey(api_key, proj) ==
    IF Truthy(api_key)
    THEN find_one(apikey, ActiveKeyOf(api_key[1], StrId(proj["_id"])))
    ELSE {None}

\* POST /ingest, the lookups: the project by slug, then the submitted key
IngestLookup(call) ==
    /\ ing.pc = "idle"
    /\ Len(apievent) < Load.max_events
    /\ \E found \in find_one(project, BySlug(call.event.project_slug)) :
         IF found = None
         THEN /\ resp' = [op |-> "ingest",
                          status |-> RaisedStatus([raised |-> "HTTPException",
                                                   status_code |-> 404])]
              /\ UNCHANGED ing
         ELSE \E key_doc \in LookupKey(call.event.api_key, found[1]) :
                /\ ing' = [pc |-> "insert", call |-> call, proj |-> found[1],
                           api_key_id |-> IF key_doc = None THEN None
                                          ELSE Some(StrId(key_doc[1]["_id"]))]
                /\ UNCHANGED resp
    /\ UNCHANGED <<project, apikey, apievent, now, st, cfg>>

\* create_document("apievent", doc): the insert, with the creation timestamp
\* the statistics read (section 4.4 (6) of the specification)
create_event(rec) == create_document(rec) @@ [created_at |-> now]

\* POST /ingest, from the construction of the record to the response
IngestInsert ==
    /\ ing.pc = "insert"
    /\ LET rec == BuildEvent(ing.call, ing.proj, ing.api_key_id)
       IN  IF ~ApieventValid(rec)
           THEN /\ resp' = [op |-> "ingest",
                            status |-> RaisedStatus([raised |-> "ValidationError",
                                                     status_code |-> 0])]
                /\ UNCHANGED apievent
           ELSE LET doc == create_event(rec)
                IN  /\ apievent' = Append(apievent, doc)
                    /\ resp' = [op |-> "ingest", status |-> 200,
                                body |-> [id |-> StrId(doc["_id"])]]
    /\ ing' = Idle
    /\ UNCHANGED <<project, apikey, now, st, cfg>>

(***************************************************************************)
(* Statistics.                                                             *)
(***************************************************************************)
\* a filter that matches the events of every project
OfAnyProject(project_id) == Query(NoFields, NoFields)

\* {"project_id": project_id}
OfProject(project_id) == Query([project_id |-> project_id], NoFields)

\* an error filter that matches the events of every project
ErrorOfAnyProject(project_id) == Query(NoFields, [status |-> ErrorStatus])

\* {"project_id": project_id, "status": {"$gte": 400}}
ErrorOfProject(project_id) ==
    Query([project_id |-> project_id], [status |-> ErrorStatus])

Sum(f, S) ==
    LET R[T \in SUBSET S] ==
            IF T = {} THEN 0
            ELSE LET x == CHOOSE x \in T : TRUE IN f[x] + R[T \ {x}]
    IN  R[S]

Zero == [num |-> 0, den |-> 1]

\* [{"$match": ...}, {"$group": {"_id": None, "avg": {"$avg": "$latency_ms"}}}]:
\* one group when a document matches, none otherwise
AvgPipeline(coll, project_id) ==
    LET hits == Hits(coll, OfProject(project_id))
    IN  IF hits = {} THEN <<>>
        ELSE <<[avg |-> [num |-> Sum([i \in hits |-> coll[i].latency_ms], hits),
                         den |-> Cardinality(hits)]]>>

\* agg[0]["avg"] if agg else 0
AvgLatency(agg) == IF agg # <<>> THEN agg[1].avg ELSE Zero

\* $dateTrunc to the hour
DateTrunc(t) == t - (t % HourTicks)

\* datetime.isoformat(): the timestamp written out as hour and rest
IsoFormat(t) == [hour |-> t \div HourTicks, tick |-> t % HourTicks]

\* datetime.now(timezone.utc) - timedelta(hours=24)
Since == now - Window

\* a filter without the lower bound on created_at
AnyTimeOfProject(project_id, since) == Query([project_id |-> project_id], NoFields)

\* {"project_id": project_id, "created_at": {"$gte": since}}
RecentOfProject(project_id, since) ==
    Query([project_id |-> project_id], [created_at |-> since])

\* {"$group": {"_id": {"$dateTrunc": ...}, "count": {"$sum": 1}}}
GroupByHour(coll, hits) ==
    {[_id |-> b, count |-> Cardinality({i \in hits : DateTrunc(coll[i].created_at) = b})] :
        b \in {DateTrunc(coll[i].created_at) : i \in hits}}

\* {"$sort": {"_id": 1}}
SortById(groups) ==
    LET R[G \in SUBSET groups] ==
            IF G = {} THEN <<>>
            ELSE LET g == CHOOSE g \in G : \A h \in G : g["_id"] <= h["_id"]
                 IN  <<g>> \o R[G \ {g}]
    IN  R[groups]

HourlyPipeline(coll, project_id, since) ==
    SortById(GroupByHour(coll, Hits(coll, RecentOfProject(project_id, since))))

\* [{"t": h["_id"].isoformat(), "count": h["count"]} for h in hourly]
HourlySeries(hourly) ==
    [i \in DOMAIN hourly |-> [t |-> IsoFormat(hourly[i]["_id"]), count |-> hourly[i].count]]

\* GET /api/projects/{project_id}/stats, up to the count of all events
StatsTotal(project_id) ==
    /\ st.pc = "idle"
    /\ IF ~IsValidId(project_id)
       THEN /\ resp' = [op |-> "stats", status |-> 400]
            /\ UNCHANGED st
       ELSE /\ st' = [pc |-> "errors", project_id |-> project_id,
                      total |-> count_documents(apievent, OfProject(project_id))]
            /\ UNCHANGED resp
    /\ UNCHANGED <<project, apikey, apievent, now, ing, cfg>>

\* the count of the error events
StatsErrors ==
    /\ st.pc = "errors"
    /\ st' = [pc |-> "avg", project_id |-> st.project_id, total |-> st.total,
              errors |-> count_documents(apievent, ErrorOfProject(st.project_id))]
    /\ UNCHANGED <<project, apikey, apievent, now, ing, resp, cfg>>

\* the average latency
StatsAvg ==
    /\ st.pc = "avg"
    /\ st' = [pc |-> "hourly", project_id |-> st.project_id, total |-> st.total,
              errors |-> st.errors,
              avg_latency |-> AvgLatency(AvgPipeline(apievent, st.project_id))]
    /\ UNCHANGED <<project, apikey, apievent, now, ing, resp, cfg>>

\* the hourly histogram and the response
StatsHourly ==
    /\ st.pc = "hourly"
    /\ resp' = [op |-> "stats", status |-> 200,
                body |-> [total |-> st.total,
                          errors |-> st.errors,
                          avg_latency |-> st.avg_latency,
                          hourly |-> HourlySeries(
                                HourlyPipeline(apievent, st.project_id, Since))]]
    /\ st' = Idle
    /\ UNCHANGED <<project, apikey, apievent, now, ing, cfg>>

(***************************************************************************)
(* The clock.                                                              *)
(***************************************************************************)
Tick ==
    /\ \E t \in Load.times : t > now /\ now' = t
    /\ UNCHANGED <<project, apikey, apievent, ing, st, resp, cfg>>

(***************************************************************************)
(* Specifications.                                                         *)
(***************************************************************************)
\* every handler, without the clock
NextKeys ==
    \/ \E payload \in Load.projects : create_project(payload)
    \/ list_projects
    \/ \E payload \in Load.keys : create_key(payload)
    \/ \E project_id \in Load.listed : list_keys(project_id)
    \/ \E call \in Load.calls : IngestLookup(call)
    \/ IngestInsert
    \/ \E project_id \in Load.stats : StatsTotal(project_id)
    \/ StatsErrors
    \/ StatsAvg
    \/ StatsHourly

SpecKeys == Start("keys") /\ [][NextKeys]_vars

\* projects, keys and ingestion
NextIngest ==
    \/ \E payload \in Load.projects : create_project(payload)
    \/ \E payload \in Load.keys : create_key(payload)
    \/ \E call \in Load.calls : IngestLookup(call)
    \/ IngestInsert

SpecIngest == Start("ingest") /\ [][NextIngest]_vars

SpecAddress == Start("address") /\ [][NextIngest]_vars

\* projects, ingestion and statistics
NextStats ==
    \/ \E payload \in Load.projects : create_project(payload)
    \/ \E call \in Load.calls : IngestLookup(call)
    \/ IngestInsert
    \/ \E project_id \in Load.stats : StatsTotal(project_id)
    \/ StatsErrors
    \/ StatsAvg
    \/ StatsHourly

SpecStats == Start("stats") /\ [][NextStats]_vars

\* projects, ingestion and statistics, with the clock
NextHourly ==
    \/ NextStats
    \/ Tick

SpecHourly == Start("hourly") /\ [][NextHourly]_vars

\* whether project_id is the identifier of a stored project
NamesProject(project_id) ==
    /\ IsValidId(project_id)
    /\ \E i \in DOMAIN project : project[i]["_id"] = ObjectId(project_id)

\* C1: create_key answers 404 exactly when project_id is a well-formed
\* identifier of no project, and 400 exactly when it is no identifier.
C1_DistinctFailures ==
    [][\A payload \in Load.keys :
          create_key(payload) =>
            /\ (IsValidId(payload.project_id) /\ ~NamesProject(payload.project_id)
                    => resp'.status = 404)
            /\ (resp'.status = 400 => ~IsValidId(payload.project_id))]_vars

\* every stored key carries the id of a stored project
StoredKeysNameProjects ==
    \A i \in DOMAIN apikey : NamesProject(apikey[i].project_id)

\* C2: every stored key's project_id names a stored project, and a create_key
\* call whose project_id names none fails and leaves apikey unchanged.
C2_KeysNameProjects ==
    [][/\ StoredKeysNameProjects'
       /\ \A payload \in Load.keys :
            /\ resp'.op = "create_key"
            /\ ~NamesProject(payload.project_id)
            /\ create_key(payload)
            => resp'.status >= 400 /\ apikey' = apikey]_vars

\* a key is stored, for a project named in upper case too, and the last
\* create_key call was refused
C2_Witness ==
    /\ \E i \in DOMAIN apikey : apikey[i].project_id = <<"0", "A">>
    /\ resp.op = "create_key" /\ resp.status >= 400

\* C3: no document returned by list_keys carries the key value of an issued key.
C3_ListHidesKey ==
    resp.op = "list_keys" =>
        \A i \in DOMAIN resp.body :
            "key" \in DOMAIN resp.body[i] =>
                resp.body[i].key \notin {apikey[k].key : k \in DOMAIN apikey}

(***************************************************************************)
(* Ingestion.                                                              *)
(***************************************************************************)
Last(q) == q[Len(q)]

\* the record the pending ingest call is about to validate and insert
Pending == BuildEvent(ing.call, ing.proj, ing.api_key_id)

\* C4: an ingest call whose slug is the slug of no stored project is answered
\* 404 and changes no collection, whatever else its payload holds.
C4_UnknownSlugPersistsNothing ==
    [][\A call \in Load.calls :
          /\ \A i \in DOMAIN project : project[i].slug # call.event.project_slug
          /\ IngestLookup(call)
          => /\ resp'.op = "ingest" /\ resp'.status = 404
             /\ UNCHANGED <<project, apikey, apievent>>
             /\ ing'.pc = "idle"]_vars

\* a project is stored and an ingest call was answered 404
C4_Witness ==
    /\ Len(project) > 0
    /\ resp.op = "ingest" /\ resp.status = 404

\* the stored active keys of project pid whose value is the submitted key
OwnKeys(submitted, pid) ==
    {k \in DOMAIN apikey :
        /\ submitted # None
        /\ apikey[k].key = submitted[1]
        /\ apikey[k].active
        /\ apikey[k].project_id = pid}

\* C5: a stored event's api_key_id is the id of an active key of the event's
\* project; an accepted ingest stores exactly one event, for the project of
\* the submitted slug, whose api_key_id is the id of the active key of that
\* project with the submitted value, and null when there is no such key.
C5_KeyOfResolvedProject ==
  [][/\ \A i \in DOMAIN apievent' :
            apievent'[i].api_key_id # None =>
                \E k \in DOMAIN apikey' :
                    /\ apievent'[i].api_key_id = Some(StrId(apikey'[k]["_id"]))
                    /\ apikey'[k].active
                    /\ apikey'[k].project_id = apievent'[i].project_id
     /\ IngestInsert /\ ApieventValid(Pending) =>
            LET pid == StrId(ing.proj["_id"])
                own == OwnKeys(ing.call.event.api_key, pid)
                e   == Last(apievent')
            IN  /\ Len(apievent') = Len(apievent) + 1
                /\ ing.proj.slug = ing.call.event.project_slug
                /\ e.project_id = pid
                /\ (e.api_key_id # None =>
                        \E k \in own : e.api_key_id = Some(StrId(apikey[k]["_id"])))
                /\ (own = {} => e.api_key_id = None)]_vars

\* an ingest call is about to store its event without a key, having submitted
\* the key of another project
C5_Witness ==
    /\ ing.pc = "insert"
    /\ ing.api_key_id = None
    /\ ing.call.event.api_key # None
    /\ \E k \in DOMAIN apikey :
          /\ apikey[k].key = ing.call.event.api_key[1]
          /\ apikey[k].project_id # StrId(ing.proj["_id"])
          /\ NamesProject(apikey[k].project_id)

\* C6: an ingest call whose slug resolves and whose fields violate the
\* Apievent schema is answered 422 and stores no event.
C6_SchemaViolation422 ==
    [][IngestInsert /\ ~ApieventValid(Pending) =>
            resp'.status = 422 /\ apievent' = apievent]_vars

\* C9 as claimed: the stored ip is the ip field whenever the payload has one,
\* else the first entry of X-Forwarded-For, else null.
C9_IpPrecedence ==
    [][IngestInsert /\ resp'.status = 200 =>
            LET ip == ing.call.event.ip
                xff == ing.call.x_forwarded_for
            IN  Last(apievent').ip =
                    IF ip # None THEN ip
                    ELSE IF xff # None THEN Some(Strip(FirstEntry(xff[1])))
                    ELSE None]_vars

\* C9 as amended: the stored ip is the ip field whenever the payload has a
\* non-empty one, else the first entry of a non-empty X-Forwarded-For without
\* its surrounding blanks, else null.
C9_IpPrecedenceNonEmpty ==
    [][IngestInsert /\ resp'.status = 200 =>
            LET ip == ing.call.event.ip
                xff == ing.call.x_forwarded_for
                stored == Last(apievent').ip
            IN  IF ip # None /\ Len(ip[1]) > 0 THEN stored = ip
                ELSE IF xff # None /\ Len(xff[1]) > 0
                     THEN stored = Some(Strip(FirstEntry(xff[1])))
                     ELSE stored = None]_vars

\* an event is stored whose ip is the first entry of the header, trimmed
C9_Witness ==
    \E i \in DOMAIN apievent : apievent[i].ip = Some(<<"1">>)

(***************************************************************************)
(* Statistics.                                                             *)
(***************************************************************************)
\* the stored events of a project
EventsOf(project_id) ==
    {i \in DOMAIN apievent : apievent[i].project_id = project_id}

\* C7: total is the number of stored events of the project when it is
\* counted; and when a call ends with that many events of the project stored
\* (none was ingested meanwhile), errors is the number of them with status
\* >= 400 and avg_latency their mean latency, or 0 and an empty hourly series
\* when there are none; a well-formed id is never refused.
C7_StatsOfQuietCall ==
  [][/\ \A project_id \in Load.stats :
            StatsTotal(project_id) /\ IsValidId(project_id) =>
                /\ st'.pc = "errors"
                /\ st'.total = Cardinality(EventsOf(project_id))
     /\ StatsHourly =>
            LET mine == EventsOf(st.project_id)
                body == resp'.body
            IN  /\ resp'.status = 200
                /\ body.total = Cardinality(mine) =>
                    /\ body.errors =
                          Cardinality({i \in mine : apievent[i].status >= 400})
                    /\ body.avg_latency.den > 0
                    /\ body.avg_latency.num * Cardinality(mine) =
                          body.avg_latency.den
                            * Sum([i \in mine |-> apievent[i].latency_ms], mine)
                    /\ (mine = {} =>
                          /\ body.avg_latency.num = 0
                          /\ body.hourly = <<>>)]_vars

\* a response counts the two stored events, one of them an error
C7_Witness ==
    /\ resp.op = "stats" /\ resp.status = 200
    /\ resp.body.total = 2 /\ resp.body.errors = 1
    /\ resp.body.avg_latency = [num |-> 40, den |-> 2]
    /\ Cardinality(EventsOf(StrId(10))) = 2

\* the events of a project created since a time
RecentOf(project_id, since) ==
    {i \in EventsOf(project_id) : apievent[i].created_at >= since}

HourOf(i) == apievent[i].created_at \div HourTicks

\* C8: the hourly series has one entry for each hour that holds an event of
\* the project created in the last 24 hours and no other entry; an entry's t
\* is the start of the hour and its count the number of those events in the
\* hour; the entries are in strictly ascending order of t.
C8_HourlySeries ==
    [][StatsHourly =>
          LET recent == RecentOf(st.project_id, now - WindowHours * HourTicks)
              hourly == resp'.body.hourly
          IN  /\ \A i \in recent : \E j \in DOMAIN hourly : hourly[j].t.hour = HourOf(i)
              /\ \A j \in DOMAIN hourly :
                    /\ hourly[j].t.tick = 0
                    /\ hourly[j].count >= 1
                    /\ hourly[j].count =
                          Cardinality({i \in recent : HourOf(i) = hourly[j].t.hour})
              /\ \A j, k \in DOMAIN hourly :
                    j < k => hourly[j].t.hour < hourly[k].t.hour]_vars

\* a response with two hours, while an older event of the project is left out
C8_Witness ==
    /\ resp.op = "stats" /\ resp.status = 200
    /\ Len(resp.body.hourly) = 2
    /\ resp.body.total = 3

\* C10 as claimed: every response of stats has errors <= total.
C10_ErrorsAtMostTotal ==
    resp.op = "stats" /\ resp.status = 200 => resp.body.errors <= resp.body.total

\* C10 as amended: errors <= total when no event of the project was stored
\* between the two counts; in every case errors is at most the number of
\* events of the project stored.
C10_ErrorsAtMostStored ==
    [][/\ st'.pc \in {"avg", "hourly"} =>
            st'.errors <= Cardinality(EventsOf(st.project_id)')
       /\ StatsErrors /\ st.total = Cardinality(EventsOf(st.project_id)) =>
            st'.errors <= st.total]_vars

\* errors was counted with no event stored since total, and is below it
C10_Witness ==
    /\ st.pc = "avg"
    /\ st.total = Cardinality(EventsOf(st.project_id))
    /\ st.errors = 1 /\ st.total = 2

====
